---------------------------- MODULE Spec2Model ----------------------------
(***************************************************************************)
(* A model of the `color` crate: the nom parser of hsl()/rgb() notations   *)
(* (src/src/parse.rs) and the HSL <-> RGB conversions (src/src/colors.rs,  *)
(* and the older variant in src/src/lib.rs).                               *)
(*                                                                         *)
(* Numbers.  The code computes in f32.  A finite f32 is modelled here as a *)
(* fixed-point integer counting tenths (Unit steps per 1.0), which is the  *)
(* resolution round_to_one_decimal_place gives the HSL view; NaN is a      *)
(* value of its own.  Inside one conversion the arithmetic is carried out  *)
(* exactly on numerator/denominator pairs and rounded only where the code  *)
(* calls round(), half away from zero as f32::round does.  The f32         *)
(* intermediate results carry a rounding error of either sign, so a        *)
(* quotient that lies on a tie, or within 0.0005 of one, may be rounded to *)
(* either neighbour: Round yields the set of values round() can return,    *)
(* and a conversion yields the set of its possible results.                *)
(***************************************************************************)
EXTENDS Integers, Sequences, FiniteSets, TLC

VARIABLES
    args,     \* the four f32 arguments handed to Color::from_rgb / Color::from_hsl
    color,    \* the Color built from them (or the panic that prevented it)
    view,     \* the tuple Color::hsl() returned for `color`
    back,     \* the Color built by Color::from_hsl from `view`
    old,      \* what lib.rs hsl_to_rgb returned for the first three arguments
    shape,    \* the pieces the input string was assembled from
    input,    \* the string handed to parse_color, one character per element
    parsed,   \* the result of parse_color(input)
    pc        \* which call has been made last

vars == <<args, color, view, back, old, shape, input, parsed, pc>>

----------------------------------------------------------------------------
(* f32 values *)

\* steps per 1.0 of the fixed-point representation (one decimal place)
Unit == 10

\* f32::NAN, a value outside every range used below
NaN == -1000000

IsNaN(x) == x = NaN

Abs(x) == IF x < 0 THEN -x ELSE x

\* f32::round of the quotient n / d (d > 0): the nearest integer, ties away from
\* zero; both neighbours when the exact quotient is within 0.0005 of a tie
Round(n, d) ==
    LET a == Abs(n)
        fl == a \div d
        rem == a % d
        near == Abs(2 * rem - d) <= d \div 1000
        mags == IF near THEN {fl, fl + 1}
                ELSE IF 2 * rem >= d THEN {fl + 1} ELSE {fl}
    IN  {IF n >= 0 THEN m ELSE -m : m \in mags}

\* the integer nearest to n / d (d > 0), for quotients that are not near a tie
Nearest(n, d) ==
    IF n >= 0 THEN (2 * n + d) \div (2 * d) ELSE -((2 * (-n) + d) \div (2 * d))

\* round(n * m / d) for n >= 0 without leaving 32 bits: n = q*d + r
RoundMulDiv(n, m, d) ==
    LET q == n \div d
        r == n % d
    IN  {q * m + x : x \in Round(r * m, d)}

\* f32::clamp: NaN compares false with both bounds and is returned as it is
clamp(x, lo, hi) ==
    IF IsNaN(x) THEN NaN
    ELSE IF x < lo THEN lo
    ELSE IF x > hi THEN hi
    ELSE x

\* f32::min / f32::max: a NaN operand is ignored
f32_min(a, b) == IF IsNaN(a) THEN b ELSE IF IsNaN(b) THEN a ELSE IF a < b THEN a ELSE b
f32_max(a, b) == IF IsNaN(a) THEN b ELSE IF IsNaN(b) THEN a ELSE IF a > b THEN a ELSE b

\* f32::EPSILON = 2^-23, as the denominator of 1 / 8388608
EPSILON_DEN == 8388608

\* the comparison as it would be with a tolerance of 0.1
LtTenth(n, d) == n * 10 < d

\* |n / d| < f32::EPSILON for integers n >= 0, d > 0
LtEpsilon(n, d) == n = 0 \/ (n <= 255 /\ n * EPSILON_DEN < d)

----------------------------------------------------------------------------
(* colors.rs: Color and the conversions *)

NoValue == [kind |-> "none"]
Panic == [kind |-> "panic"]

MkColor(parsed_as, red, green, blue, alpha) ==
    [kind |-> "color", parsed_as |-> parsed_as,
     red |-> red, green |-> green, blue |-> blue, alpha |-> alpha]

\* the sextant chosen by the if / else-if chain of hsl_to_rgb (colors.rs); 0 is
\* the unreachable!() branch
sextant(hue) ==
    IF IsNaN(hue) THEN 0
    ELSE IF 0 <= hue /\ hue < 60 * Unit THEN 1
    ELSE IF 60 * Unit <= hue /\ hue < 120 * Unit THEN 2
    ELSE IF 120 * Unit <= hue /\ hue < 180 * Unit THEN 3
    ELSE IF 180 * Unit <= hue /\ hue < 240 * Unit THEN 4
    ELSE IF 240 * Unit <= hue /\ hue < 300 * Unit THEN 5
    ELSE IF 300 * Unit <= hue /\ hue <= 360 * Unit THEN 6
    ELSE 0

\* which of chroma ("c"), x ("x") and 0.0 ("0") each sextant gives red, green, blue
sextant_rgb(k) ==
    CASE k = 1 -> <<"c", "x", "0">>
      [] k = 2 -> <<"x", "c", "0">>
      [] k = 3 -> <<"0", "c", "x">>
      [] k = 4 -> <<"0", "x", "c">>
      [] k = 5 -> <<"x", "0", "c">>
      [] k = 6 -> <<"c", "0", "x">>

\* The arithmetic of hsl_to_rgb for finite hue in [0,360], saturation and
\* luminosity in [0,100] (tenths), sextant k.  With S = saturation, L = luminosity,
\* H = hue in tenths and P = 100 * Unit:
\*   chroma    = (1 - |2L/P - 1|) * S/P            = cn / P^2
\*   x         = chroma * (1 - |(H/60 % 2) - 1|)   = cn * xf / (60 * Unit * P^2)
\*   lightness = L/P - chroma/2                    = (2*P*L - cn) / (2 * P^2)
\* and each channel is round((c + lightness) * 255), returned in tenths.
\* The result is the set of <<red, green, blue>> the roundings allow.
hsl_channels(hue, saturation, luminosity, k) ==
    LET P  == 100 * Unit
        cn == (P - Abs(2 * luminosity - P)) * saturation
        xf == 60 * Unit - Abs((hue % (120 * Unit)) - 60 * Unit)
        \* (chroma + lightness) * 255 = (cn + 2*P*L) * 255 / (2 * P^2)
        with_c == Round((cn + 2 * P * luminosity) * 255, 2 * P * P)
        \* (0.0 + lightness) * 255
        with_0 == Round((2 * P * luminosity - cn) * 255, 2 * P * P)
        \* (x + lightness) * 255
        \*   = (cn*xf + 30*Unit*(2*P*L - cn)) * 255 / (60 * Unit * P^2), 255/60 = 17/4
        with_x == RoundMulDiv(cn * xf + 30 * Unit * (2 * P * luminosity - cn),
                              17, 4 * Unit * P * P)
        pick(w) == CASE w = "c" -> with_c [] w = "x" -> with_x [] w = "0" -> with_0
        sel == sextant_rgb(k)
    IN  {<<Unit * r, Unit * g, Unit * b>> :
            r \in pick(sel[1]), g \in pick(sel[2]), b \in pick(sel[3])}

\* colors.rs hsl_to_rgb: the possible (red, green, blue, alpha), or Panic at
\* unreachable!()
hsl_to_rgb(hue0, saturation0, luminosity0, alpha0) ==
    LET hue == clamp(hue0, 0, 360 * Unit)
        saturation == clamp(saturation0, 0, 100 * Unit)
        luminosity == clamp(luminosity0, 0, 100 * Unit)
        alpha == clamp(alpha0, 0, Unit)
        k == sextant(hue)
    IN  IF k = 0 THEN {Panic}
        ELSE IF IsNaN(saturation) \/ IsNaN(luminosity)
             \* chroma and lightness are NaN, and so is every channel
             THEN {[kind |-> "rgb", red |-> NaN, green |-> NaN, blue |-> NaN,
                    alpha |-> alpha]}
        ELSE {[kind |-> "rgb", red |-> ch[1], green |-> ch[2], blue |-> ch[3],
               alpha |-> alpha] : ch \in hsl_channels(hue, saturation, luminosity, k)}

\* round_to_one_decimal_place as it would be without its two factors of 10.0:
\* rounding to a whole number
round_to_whole(n, d) == {Unit * x : x \in Round(n, d)}

\* round_to_one_decimal_place of the exact quotient n / d, in tenths
round_to_one_decimal_place(n, d) == Round(n * Unit, d)

\* a - b in f32: NaN when either operand is
f32_sub(a, b) == IF IsNaN(a) \/ IsNaN(b) THEN NaN ELSE a - b

\* n/d % 6.0 (the remainder has the dividend's sign), as a numerator over d
f32_rem6(n, d) ==
    LET t == IF n >= 0 THEN n \div (6 * d) ELSE -((-n) \div (6 * d))
    IN  n - t * 6 * d

\* The hue branch of rgb_to_hsl (colors.rs), the channels being numerators over
\* D = 255 * Unit: 0 delta == 0.0, 1 red, 2 green, 3 blue.
hue_branch(red, green, blue, cmax, delta) ==
    IF ~IsNaN(delta) /\ delta = 0 THEN 0
    ELSE IF ~IsNaN(red) /\ ~IsNaN(cmax) /\ LtEpsilon(Abs(cmax - red), 255 * Unit) THEN 1
    ELSE IF ~IsNaN(green) /\ ~IsNaN(cmax) /\ LtEpsilon(Abs(cmax - green), 255 * Unit) THEN 2
    ELSE 3

\* hue in whole degrees after (hue * 60.0).round() and the +360 of a negative
\* hue; n is the numerator of the branch's quotient over delta
hue_degrees(n, delta) ==
    IF IsNaN(n) THEN {NaN}
    ELSE {IF h < 0 THEN h + 360 ELSE h : h \in Round(60 * n, delta)}

\* colors.rs rgb_to_hsl: the possible (hue, saturation, luminosity, alpha)
rgb_to_hsl(red0, green0, blue0, alpha0) ==
    LET D == 255 * Unit
        red == clamp(red0, 0, D)
        green == clamp(green0, 0, D)
        blue == clamp(blue0, 0, D)
        alpha == clamp(alpha0, 0, Unit)
        cmin == f32_min(f32_min(red, green), blue)
        cmax == f32_max(f32_max(red, green), blue)
        delta == f32_sub(cmax, cmin)
        b == hue_branch(red, green, blue, cmax, delta)
        hue == CASE b = 0 -> {0}
                 [] b = 1 -> hue_degrees(IF IsNaN(f32_sub(green, blue)) THEN NaN
                                         ELSE f32_rem6(green - blue, delta), delta)
                 [] b = 2 -> hue_degrees(IF IsNaN(f32_sub(blue, red)) THEN NaN
                                         ELSE (blue - red) + 2 * delta, delta)
                 [] b = 3 -> hue_degrees(IF IsNaN(f32_sub(red, green)) \/ IsNaN(delta)
                                         THEN NaN
                                         ELSE (red - green) + 4 * delta, delta)
        \* luminosity = (cmax + cmin) / 2.0, times 100
        luminosity == IF IsNaN(cmax) THEN {NaN}
                      ELSE round_to_one_decimal_place(100 * (cmax + cmin), 2 * D)
        \* delta / (1 - |2l - 1|) = delta / (D - |cmax + cmin - D|), times 100
        saturation == IF IsNaN(delta) THEN {NaN}
                      ELSE IF delta = 0 THEN {0}
                      ELSE round_to_one_decimal_place(100 * delta,
                                                      D - Abs(cmax + cmin - D))
    IN  {[kind |-> "hsl", hue |-> h1, saturation |-> s, luminosity |-> l,
          alpha |-> alpha] :
            h1 \in UNION {IF IsNaN(h) THEN {NaN} ELSE round_to_one_decimal_place(h, 1) :
                            h \in hue},
            s \in saturation, l \in luminosity}

\* Color::from_rgb
from_rgb(red, green, blue, alpha) ==
    MkColor("Rgb", clamp(red, 0, 255 * Unit), clamp(green, 0, 255 * Unit),
            clamp(blue, 0, 255 * Unit), clamp(alpha, 0, Unit))

\* Color::from_hsl
from_hsl(hue, saturation, luminosity, alpha) ==
    {IF rgb = Panic THEN Panic
     ELSE MkColor("Hsl", clamp(rgb.red, 0, 255 * Unit), clamp(rgb.green, 0, 255 * Unit),
                  clamp(rgb.blue, 0, 255 * Unit), clamp(rgb.alpha, 0, Unit)) :
        rgb \in hsl_to_rgb(hue, saturation, luminosity, alpha)}

\* Color::rgb
Color_rgb(c) == <<c.red, c.green, c.blue, c.alpha>>

\* Color::hsl
Color_hsl(c) == rgb_to_hsl(c.red, c.green, c.blue, c.alpha)

----------------------------------------------------------------------------
(* lib.rs: the older conversion on HslColor / RgbColor *)

\* the sextant chain of lib.rs hsl_to_rgb; 0 is the panic!() branch
lib_sextant(hue) ==
    IF IsNaN(hue) THEN 0
    ELSE IF 0 <= hue /\ hue < 60 * Unit THEN 1
    ELSE IF 60 * Unit <= hue /\ hue < 120 * Unit THEN 2
    ELSE IF 120 * Unit <= hue /\ hue < 180 * Unit THEN 3
    ELSE IF 180 * Unit <= hue /\ hue < 240 * Unit THEN 4
    ELSE IF 240 * Unit <= hue /\ hue < 300 * Unit THEN 5
    ELSE IF 300 * Unit <= hue /\ hue < 360 * Unit THEN 6
    ELSE 0

\* lib.rs hsl_to_rgb: no clamping on entry; the u16 channels are whole numbers.
\* Applied to saturation and luminosity within [0,100] only (ProperHsl).
lib_hsl_to_rgb(hue, saturation, luminosity) ==
    LET k == lib_sextant(hue)
    IN  IF k = 0 THEN {Panic}
        ELSE {[kind |-> "rgb", red |-> ch[1] \div Unit, green |-> ch[2] \div Unit,
               blue |-> ch[3] \div Unit] :
                 ch \in hsl_channels(hue, saturation, luminosity, k)}

\* The hue branch of lib.rs rgb_to_hsl, by exact comparison with cmax:
\* 0 delta == 0.0, 1 cmax == r, 2 cmax == g, 3 otherwise.
lib_hue_branch(r, g, b, cmax, delta) ==
    IF delta = 0 THEN 0
    ELSE IF cmax = r THEN 1
    ELSE IF cmax = g THEN 2
    ELSE 3

\* lib.rs rgb_to_hsl: the possible (hue, saturation, luminosity) of u16
\* channels, given as numerators over 255 * Unit.  Applied to channels within
\* [0,255] only (ProperRgb).
lib_rgb_to_hsl(red, green, blue) ==
    LET D == 255 * Unit
        cmin == f32_min(f32_min(red, green), blue)
        cmax == f32_max(f32_max(red, green), blue)
        delta == cmax - cmin
        k == lib_hue_branch(red, green, blue, cmax, delta)
        h == CASE k = 0 -> {0}
               [] k = 1 -> hue_degrees(f32_rem6(green - blue, delta), delta)
               [] k = 2 -> hue_degrees((blue - red) + 2 * delta, delta)
               [] k = 3 -> hue_degrees((red - green) + 4 * delta, delta)
        l == round_to_one_decimal_place(100 * (cmax + cmin), 2 * D)
        sat == IF delta = 0 THEN {0}
               ELSE round_to_one_decimal_place(100 * delta, D - Abs(cmax + cmin - D))
    IN  {[kind |-> "hsl", hue |-> h1, saturation |-> s1, luminosity |-> l1] :
            h1 \in UNION {round_to_one_decimal_place(x, 1) : x \in h},
            s1 \in sat, l1 \in l}

----------------------------------------------------------------------------
(* The conversions as a state machine: four f32 arguments are drawn, a Color
   is built from them either way, viewed as HSL and built again from the view *)

\* the distance between two sampled channel values
ChanStep == 51

\* the channel values of the test convert_rgb_to_hsl: (23, 11, 33)
FixtureChannels == {11, 23, 33}

Channels == {c \in 0..255 : c % ChanStep = 0} \cup {255} \cup FixtureChannels

\* the two hues on either side of each sextant boundary, 360 included
SextantEdges == UNION {{60 * k * Unit - 1, 60 * k * Unit} : k \in 1..6}

\* values outside [0,360], [0,255] and [0,100], and NaN
OutOfRange == {-Unit, 400 * Unit, NaN}

\* the arguments of the tests of colors.rs: from_hsl(122, 33, 12, 0.4)
FixtureArgs == {<<122 * Unit, 33 * Unit, 12 * Unit, 4>>}

Arg1 == {Unit * c : c \in Channels} \cup SextantEdges \cup OutOfRange
Arg23 == {Unit * c : c \in Channels} \cup OutOfRange
ArgAlphas == {4, Unit, 15, NaN}

ArgTuples == (Arg1 \X Arg23 \X Arg23 \X ArgAlphas) \cup FixtureArgs

\* an HslColor lib.rs can be given: saturation and luminosity are percentages
ProperHsl(a) ==
    /\ ~IsNaN(a[2]) /\ 0 <= a[2] /\ a[2] <= 100 * Unit
    /\ ~IsNaN(a[3]) /\ 0 <= a[3] /\ a[3] <= 100 * Unit

\* an RgbColor within the 8-bit range: whole channels in [0,255]
ProperRgb(a) == \A k \in 1..3 : a[k] \in {Unit * c : c \in 0..255}

NoShape == [fn |-> <<>>]

InitConv ==
    /\ args \in ArgTuples
    /\ color = NoValue
    /\ view = NoValue
    /\ back = NoValue
    /\ old = NoValue
    /\ shape = NoShape
    /\ input = <<>>
    /\ parsed = NoValue
    /\ pc = "args"

\* Color::from_rgb(args)
FromRgb ==
    /\ pc = "args"
    /\ color' = from_rgb(args[1], args[2], args[3], args[4])
    /\ pc' = "from_rgb"
    /\ UNCHANGED <<args, view, back, old, shape, input, parsed>>

\* Color::from_hsl(args)
FromHsl ==
    /\ pc = "args"
    /\ color' \in from_hsl(args[1], args[2], args[3], args[4])
    /\ pc' = "from_hsl"
    /\ UNCHANGED <<args, view, back, old, shape, input, parsed>>

\* color.hsl()
Hsl ==
    /\ pc \in {"from_rgb", "from_hsl"}
    /\ color.kind = "color"
    /\ view' \in Color_hsl(color)
    /\ pc' = IF pc = "from_rgb" THEN "rgb_hsl" ELSE "hsl_hsl"
    /\ UNCHANGED <<args, color, back, old, shape, input, parsed>>

\* Color::from_hsl(color.hsl()): the round trip
FromView ==
    /\ pc \in {"rgb_hsl", "hsl_hsl"}
    /\ back' \in from_hsl(view.hue, view.saturation, view.luminosity, view.alpha)
    /\ pc' = IF pc = "rgb_hsl" THEN "rgb_hsl_rgb" ELSE "hsl_hsl_rgb"
    /\ UNCHANGED <<args, color, view, old, shape, input, parsed>>

\* lib.rs: RgbColor::from(HslColor::new(args))
LibHslToRgb ==
    /\ pc = "args"
    /\ ProperHsl(args)
    /\ old' \in lib_hsl_to_rgb(args[1], args[2], args[3])
    /\ pc' = "lib"
    /\ UNCHANGED <<args, color, view, back, shape, input, parsed>>

\* lib.rs: HslColor::from(RgbColor::new(args))
LibRgbToHsl ==
    /\ pc = "args"
    /\ ProperRgb(args)
    /\ old' \in lib_rgb_to_hsl(args[1], args[2], args[3])
    /\ pc' = "lib_rgb"
    /\ UNCHANGED <<args, color, view, back, shape, input, parsed>>

NextConv == FromRgb \/ FromHsl \/ Hsl \/ FromView \/ LibHslToRgb \/ LibRgbToHsl

SpecConv == InitConv /\ [][NextConv]_vars

-----------------------------------------------------------------------------
(* colors.rs rgb_to_hsl at the precision of f32, on dark colours.  An argument
   channel here is 255 * k / 2^26 for a small whole k: it is an f32, the clamp
   leaves it alone and the division by 255.0 gives k / 2^26 exactly.  The
   channels below are the numerators k over FineDen.  Differences and sums of
   such channels are exact in f32; 2.0 * luminosity - 1.0 is not. *)

FineDen == 67108864

MaxDark == 12

\* the result +infinity of an f32 division of a positive number by zero
Inf == 2000000

\* n / FineDen rounded to f32, for 1/2 <= |n / FineDen| <= 1: the values of f32
\* are 2^-24 = 4 / FineDen apart there, and a tie goes to the even mantissa
f32_round_near_one(n) ==
    LET a == Abs(n)
        q == a \div 4
        r == a % 4
        m == IF r < 2 THEN q
             ELSE IF r > 2 THEN q + 1
             ELSE IF q % 2 = 0 THEN q ELSE q + 1
    IN  IF n >= 0 THEN 4 * m ELSE -(4 * m)

\* x < f32::EPSILON for x = n / FineDen
LtEpsilonFine(n) == n * EPSILON_DEN < FineDen

\* the hue branch of rgb_to_hsl on channels over FineDen
hue_branch_fine(red, green, blue, cmax, delta) ==
    IF delta = 0 THEN 0
    ELSE IF LtEpsilonFine(Abs(cmax - red)) THEN 1
    ELSE IF LtEpsilonFine(Abs(cmax - green)) THEN 2
    ELSE 3

\* 1.0 - (2.0 * luminosity - 1.0).abs(), as a numerator over FineDen
saturation_divisor(cmax, cmin) ==
    FineDen - Abs(f32_round_near_one((cmax + cmin) - FineDen))

\* colors.rs rgb_to_hsl on channels over FineDen: the possible
\* (hue, saturation, luminosity, alpha), hue in degrees and the rest in tenths
rgb_to_hsl_fine(red, green, blue, alpha0) ==
    LET alpha == clamp(alpha0, 0, Unit)
        cmin == f32_min(f32_min(red, green), blue)
        cmax == f32_max(f32_max(red, green), blue)
        delta == cmax - cmin
        b == hue_branch_fine(red, green, blue, cmax, delta)
        hue == CASE b = 0 -> {0}
                 [] b = 1 -> hue_degrees(f32_rem6(green - blue, delta), delta)
                 [] b = 2 -> hue_degrees((blue - red) + 2 * delta, delta)
                 [] b = 3 -> hue_degrees((red - green) + 4 * delta, delta)
        luminosity == round_to_one_decimal_place(100 * (cmax + cmin), 2 * FineDen)
        divisor == saturation_divisor(cmax, cmin)
        saturation == IF delta = 0 THEN {0}
                      ELSE IF divisor = 0 THEN {Inf}
                      ELSE round_to_one_decimal_place(100 * delta, divisor)
    IN  {[kind |-> "hsl", hue |-> h1, saturation |-> s, luminosity |-> l,
          alpha |-> alpha] :
            h1 \in UNION {round_to_one_decimal_place(h, 1) : h \in hue},
            s \in saturation, l \in luminosity}

DarkChannels == 0..MaxDark

DarkTuples == {<<r, g, b, Unit>> : r \in DarkChannels, g \in DarkChannels,
                                   b \in DarkChannels}

InitDark ==
    /\ args \in DarkTuples
    /\ color = NoValue
    /\ view = NoValue
    /\ back = NoValue
    /\ old = NoValue
    /\ shape = NoShape
    /\ input = <<>>
    /\ parsed = NoValue
    /\ pc = "dark_args"

\* Color::from_rgb(args): the clamps leave the channels as they are
FromRgbDark ==
    /\ pc = "dark_args"
    /\ color' = MkColor("Rgb", args[1], args[2], args[3], clamp(args[4], 0, Unit))
    /\ pc' = "dark_rgb"
    /\ UNCHANGED <<args, view, back, old, shape, input, parsed>>

\* color.hsl()
HslDark ==
    /\ pc = "dark_rgb"
    /\ view' \in rgb_to_hsl_fine(color.red, color.green, color.blue, color.alpha)
    /\ pc' = "dark_hsl"
    /\ UNCHANGED <<args, color, back, old, shape, input, parsed>>

NextDark == FromRgbDark \/ HslDark

SpecDark == InitDark /\ [][NextDark]_vars

----------------------------------------------------------------------------
(* parse.rs: the nom combinators.  A parser takes the input s and the index i
   of its first unread character, and returns Err or Ok(index after what it
   consumed, value). *)

Err == [ok |-> FALSE]
Ok(p, v) == [ok |-> TRUE, pos |-> p, val |-> v]

None == [some |-> FALSE]
Some(v) == [some |-> TRUE, v |-> v]

DigitChars == <<"0", "1", "2", "3", "4", "5", "6", "7", "8", "9">>
IsDigit(c) == \E k \in 1..10 : DigitChars[k] = c
DigitVal(c) == (CHOOSE k \in 1..10 : DigitChars[k] = c) - 1

\* the character at i, or "" at the end of the input
At(s, i) == IF i <= Len(s) THEN s[i] ELSE ""

\* nom tag(t)
tag(t, s, i) ==
    IF i + Len(t) - 1 <= Len(s) /\ SubSeq(s, i, i + Len(t) - 1) = t
    THEN Ok(i + Len(t), t) ELSE Err

\* nom space0: skips spaces and tabs, never fails; the index after them
RECURSIVE space0(_, _)
space0(s, i) == IF At(s, i) \in {" ", "\t"} THEN space0(s, i + 1) ELSE i

\* nom space1: at least one space or tab
space1(s, i) == IF At(s, i) \in {" ", "\t"} THEN Ok(space0(s, i), " ") ELSE Err

\* nom digit0: the index after a run of digits
RECURSIVE digit0(_, _)
digit0(s, i) == IF IsDigit(At(s, i)) THEN digit0(s, i + 1) ELSE i

\* the number written by the digits s[i..j-1]
RECURSIVE DigitsValue(_, _, _)
DigitsValue(s, i, j) ==
    IF j <= i THEN 0 ELSE 10 * DigitsValue(s, i, j - 1) + DigitVal(s[j - 1])

\* nom number::complete::float: [sign] (digits ['.' [digits]] | '.' digits).
\* The value is in tenths; the literals of the model carry at most one decimal,
\* further decimals would be dropped.  Exponents and the words nom also reads
\* as floats do not occur in the model's inputs.
float(s, i) ==
    LET neg == At(s, i) = "-"
        a == IF At(s, i) \in {"+", "-"} THEN i + 1 ELSE i
        b == digit0(s, a)                       \* end of the integer part
        c == IF At(s, b) = "." THEN digit0(s, b + 1) ELSE b
        \* end of the literal, 0 when there is none
        e == IF b > a THEN (IF At(s, b) = "." THEN c ELSE b)
             ELSE IF At(s, a) = "." /\ c > a + 1 THEN c
             ELSE 0
        int == DigitsValue(s, a, b)
        frac == IF At(s, b) = "." /\ c > b + 1 THEN DigitVal(s[b + 1]) ELSE 0
        v == int * Unit + frac
    IN  IF e = 0 THEN Err ELSE Ok(e, IF neg THEN -v ELSE v)

\* the one element of a singleton
The(S) == CHOOSE v \in S : TRUE

\* let y = v; K(y)
Let(v, K(_)) == The({K(y) : y \in {v}})

\* let y = r?; K(y): the next parser of a sequence runs when r succeeded
Then(r, K(_)) == The({IF y.ok THEN K(y) ELSE Err : y \in {r}})

\* nom alt((a, b)): b where a fails
alt(a, b) == Let(a, LAMBDA r : IF r.ok THEN r ELSE b)

\* nom map(r, f)
map(r, f(_)) == Then(r, LAMBDA y : Ok(y.pos, f(y.val)))

\* nom opt(r), read at i: None, and nothing consumed, where r fails
opt(r, i) == Let(r, LAMBDA y : IF y.ok THEN Ok(y.pos, Some(y.val)) ELSE Ok(i, None))

\* nom preceded(a, b): the value of b, read where a ended
preceded(a, b(_)) == Then(a, LAMBDA x : b(x.pos))

\* fn percentage: terminated(float, tag("%"))
percentage(s, i) ==
    Then(float(s, i), LAMBDA f :
    Then(tag(<<"%">>, s, f.pos), LAMBDA t :
    Ok(t.pos, f.val)))

\* alt((tag("deg"), tag("rad"), tag("grad"), tag("turn")))
angle_unit(s, i) ==
    IF tag(<<"d", "e", "g">>, s, i).ok THEN Ok(i + 3, "deg")
    ELSE IF tag(<<"r", "a", "d">>, s, i).ok THEN Ok(i + 3, "rad")
    ELSE IF tag(<<"g", "r", "a", "d">>, s, i).ok THEN Ok(i + 4, "grad")
    ELSE IF tag(<<"t", "u", "r", "n">>, s, i).ok THEN Ok(i + 4, "turn")
    ELSE Err

\* fn angle: tuple((float, opt(unit))) mapped to an Angle
angle(s, i) ==
    Then(float(s, i), LAMBDA f :
    Let(angle_unit(s, f.pos), LAMBDA u :
    IF ~u.ok THEN Ok(f.pos, [unit |-> "Degrees", val |-> f.val])
    ELSE Ok(u.pos, [unit |-> CASE u.val = "deg" -> "Degrees"
                               [] u.val = "rad" -> "Radians"
                               [] u.val = "grad" -> "Gradians"
                               [] u.val = "turn" -> "Turns",
                    val |-> f.val])))

\* to_degrees as it would be with Turns passed through unscaled
to_degrees_turns_unscaled(a) ==
    CASE a.unit = "Degrees" -> [kind |-> "f32", val |-> a.val]
      [] a.unit = "Radians" -> [kind |-> "f32", val |-> Nearest(a.val * 57296, 1000)]
      [] a.unit = "Gradians" -> Panic
      [] a.unit = "Turns" -> [kind |-> "f32", val |-> a.val]

\* to_degrees as it would be with Gradians silently taken for degrees
to_degrees_grad_as_degrees(a) ==
    CASE a.unit = "Degrees" -> [kind |-> "f32", val |-> a.val]
      [] a.unit = "Radians" -> [kind |-> "f32", val |-> Nearest(a.val * 57296, 1000)]
      [] a.unit = "Gradians" -> [kind |-> "f32", val |-> a.val]
      [] a.unit = "Turns" -> [kind |-> "f32", val |-> a.val * 360]

\* Angle::to_degrees; Panic is unimplemented!().  f32::to_degrees multiplies by
\* 180/pi = 57.29578, here 57296/1000 to the nearest tenth of a degree.
to_degrees(a) ==
    CASE a.unit = "Degrees" -> [kind |-> "f32", val |-> a.val]
      [] a.unit = "Radians" -> [kind |-> "f32", val |-> Nearest(a.val * 57296, 1000)]
      [] a.unit = "Gradians" -> Panic
      [] a.unit = "Turns" -> [kind |-> "f32", val |-> a.val * 360]

\* alt((percentage, float))
percentage_or_float(s, i) == alt(percentage(s, i), float(s, i))

\* alpha_value as it would be without the division by 100.0
alpha_value_unscaled(s, i) == alt(percentage(s, i), float(s, i))

\* alt((map(percentage, |p| p / 100.0), float)); the percentages of the model's
\* inputs are multiples of 10, which the division leaves exact
alpha_value(s, i) == alt(map(percentage(s, i), LAMBDA p : p \div 100), float(s, i))

\* delimited(space0, tag(","), space0)
comma(s, i) ==
    Then(tag(<<",">>, s, space0(s, i)), LAMBDA t : Ok(space0(s, t.pos), ","))

\* delimited(space0, tag("/"), space0)
slash(s, i) ==
    Then(tag(<<"/">>, s, space0(s, i)), LAMBDA t : Ok(space0(s, t.pos), "/"))

\* hsl_list as it would be with one shared separator parser: every separator is
\* a comma or whitespace, the alpha introducer a comma or a slash
hsl_list_any_sep(s, i, commas) ==
    LET sep(j) == alt(comma(s, j), space1(s, j))
        asep(j) == alt(comma(s, j), slash(s, j))
    IN  Then(angle(s, space0(s, i)), LAMBDA h :
        Then(sep(h.pos), LAMBDA s1 :
        Then(percentage_or_float(s, s1.pos), LAMBDA sat :
        Then(sep(sat.pos), LAMBDA s2 :
        Then(percentage_or_float(s, s2.pos), LAMBDA lum :
        Then(opt(preceded(asep(lum.pos), LAMBDA j : alpha_value(s, j)), lum.pos), LAMBDA a :
        Ok(space0(s, a.pos),
           [angle |-> h.val, sat |-> sat.val, lum |-> lum.val, alpha |-> a.val])))))))

\* The two alternatives of hsl_values: angle SEP value SEP value [ALPHASEP alpha]
\* between space0 and space0, SEP and ALPHASEP being comma and comma
\* (parser_commas) or space1 and slash (parser_spaces).
hsl_list(s, i, commas) ==
    LET sep(j) == IF commas THEN comma(s, j) ELSE space1(s, j)
        asep(j) == IF commas THEN comma(s, j) ELSE slash(s, j)
    IN  Then(angle(s, space0(s, i)), LAMBDA h :
        Then(sep(h.pos), LAMBDA s1 :
        Then(percentage_or_float(s, s1.pos), LAMBDA sat :
        Then(sep(sat.pos), LAMBDA s2 :
        Then(percentage_or_float(s, s2.pos), LAMBDA lum :
        \* opt(preceded(ALPHASEP, alpha)): nothing is consumed when it fails
        Then(opt(preceded(asep(lum.pos), LAMBDA j : alpha_value(s, j)), lum.pos), LAMBDA a :
        Ok(space0(s, a.pos),
           [angle |-> h.val, sat |-> sat.val, lum |-> lum.val, alpha |-> a.val])))))))

\* fn hsl_values: alt((parser_commas, parser_spaces))
hsl_values(s, i) == alt(hsl_list(s, i, TRUE), hsl_list(s, i, FALSE))

\* HslColor::hsla of the crate's colors module: the fields clamped to
\* [0,360], [0,100], [0,100] and [0,1]
HslColor_hsla(hue, saturation, luminosity, alpha) ==
    [kind |-> "Hsl", hue |-> clamp(hue, 0, 360 * Unit),
     saturation |-> clamp(saturation, 0, 100 * Unit),
     luminosity |-> clamp(luminosity, 0, 100 * Unit),
     alpha |-> clamp(alpha, 0, Unit)]

\* HslColor::new: alpha is 1.0
HslColor_new(hue, saturation, luminosity) ==
    HslColor_hsla(hue, saturation, luminosity, Unit)

\* RgbColor::rgba of the crate's colors module: the channels clamped to [0,255],
\* alpha to [0,1]
RgbColor_rgba(red, green, blue, alpha) ==
    [kind |-> "Rgb", red |-> clamp(red, 0, 255 * Unit), green |-> clamp(green, 0, 255 * Unit),
     blue |-> clamp(blue, 0, 255 * Unit), alpha |-> clamp(alpha, 0, Unit)]

\* RgbColor::new: alpha is 1.0
RgbColor_new(red, green, blue) == RgbColor_rgba(red, green, blue, Unit)

\* alt((tag(long), tag(short))) followed by tag("("): the index after "(", or 0
fn_open(long, short, s, i) ==
    LET n == IF tag(long, s, i).ok THEN i + Len(long)
             ELSE IF tag(short, s, i).ok THEN i + Len(short)
             ELSE 0
    IN  IF n # 0 /\ tag(<<"(">>, s, n).ok THEN n + 1 ELSE 0

\* fn hsl_color: Err, Panic (to_degrees of Gradians) or Ok(rest, HslColor)
hsl_color(s, i) ==
    Let(fn_open(<<"h", "s", "l", "a">>, <<"h", "s", "l">>, s, i), LAMBDA o :
    IF o = 0 THEN Err ELSE
    Then(hsl_values(s, o), LAMBDA v :
    Then(tag(<<")">>, s, v.pos), LAMBDA t :
    Let(to_degrees(v.val.angle), LAMBDA deg :
    IF deg = Panic THEN Panic
    ELSE Ok(t.pos,
            IF v.val.alpha.some
            THEN HslColor_hsla(deg.val, v.val.sat, v.val.lum, v.val.alpha.v)
            ELSE HslColor_new(deg.val, v.val.sat, v.val.lum))))))

\* fn percentage_to_color_255: (input / 100.0) * 255.0, exact for the percentages
\* of the model's inputs (multiples of 2)
percentage_to_color_255(p) == (p * 255) \div 100

\* rgb_list as it would be with every channel read by alt((percentage, float)),
\* as the fields of hsl_values are
rgb_list_any_form(s, i, pct, commas) ==
    LET val(j) == alt(map(percentage(s, j), LAMBDA p : percentage_to_color_255(p)),
                      float(s, j))
        aval(j) == IF pct THEN map(percentage(s, j), LAMBDA p : p \div 100)
                   ELSE float(s, j)
        sep(j) == IF commas THEN comma(s, j) ELSE space1(s, j)
        asep(j) == IF commas THEN comma(s, j) ELSE slash(s, j)
    IN  Then(val(i), LAMBDA p1 :
        Then(sep(p1.pos), LAMBDA s1 :
        Then(val(s1.pos), LAMBDA p2 :
        Then(sep(p2.pos), LAMBDA s2 :
        Then(val(s2.pos), LAMBDA p3 :
        Then(opt(preceded(asep(p3.pos), LAMBDA j : aval(j)), p3.pos), LAMBDA a :
        Ok(a.pos,
           [red |-> p1.val, green |-> p2.val, blue |-> p3.val, alpha |-> a.val])))))))

\* The four alternatives of rgb_values: value SEP value SEP value [ALPHASEP value],
\* the four values all percentages (pct) or all floats, SEP and ALPHASEP comma
\* and comma (commas) or space1 and slash.  A percentage channel goes through
\* percentage_to_color_255, a percentage alpha is divided by 100.
rgb_list(s, i, pct, commas) ==
    LET val(j) == IF pct THEN map(percentage(s, j), LAMBDA p : percentage_to_color_255(p))
                  ELSE float(s, j)
        aval(j) == IF pct THEN map(percentage(s, j), LAMBDA p : p \div 100)
                   ELSE float(s, j)
        sep(j) == IF commas THEN comma(s, j) ELSE space1(s, j)
        asep(j) == IF commas THEN comma(s, j) ELSE slash(s, j)
    IN  Then(val(i), LAMBDA p1 :
        Then(sep(p1.pos), LAMBDA s1 :
        Then(val(s1.pos), LAMBDA p2 :
        Then(sep(p2.pos), LAMBDA s2 :
        Then(val(s2.pos), LAMBDA p3 :
        Then(opt(preceded(asep(p3.pos), LAMBDA j : aval(j)), p3.pos), LAMBDA a :
        Ok(a.pos,
           [red |-> p1.val, green |-> p2.val, blue |-> p3.val, alpha |-> a.val])))))))

comma_separated_percentages(s, i) == rgb_list(s, i, TRUE, TRUE)
comma_separated_floats(s, i) == rgb_list(s, i, FALSE, TRUE)
space_separated_percentages(s, i) == rgb_list(s, i, TRUE, FALSE)
space_separated_floats(s, i) == rgb_list(s, i, FALSE, FALSE)

\* fn rgb_values: alt of the four, in this order
rgb_values(s, i) ==
    alt(comma_separated_percentages(s, i),
    alt(comma_separated_floats(s, i),
    alt(space_separated_percentages(s, i),
        space_separated_floats(s, i))))

\* fn rgb_color
rgb_color(s, i) ==
    Let(fn_open(<<"r", "g", "b", "a">>, <<"r", "g", "b">>, s, i), LAMBDA o :
    IF o = 0 THEN Err ELSE
    Then(rgb_values(s, o), LAMBDA v :
    Then(tag(<<")">>, s, v.pos), LAMBDA t :
    Ok(t.pos,
       IF v.val.alpha.some
       THEN RgbColor_rgba(v.val.red, v.val.green, v.val.blue, v.val.alpha.v)
       ELSE RgbColor_new(v.val.red, v.val.green, v.val.blue)))))

\* parse_color as it would be without terminated(.., eof)
parse_color_no_eof(s) ==
    Let(hsl_color(s, 1), LAMBDA h :
    IF h = Panic THEN Panic ELSE
    Let(IF h.ok THEN h ELSE rgb_color(s, 1), LAMBDA r :
    IF ~r.ok THEN [kind |-> "err"]
    ELSE [kind |-> "ok", color |-> r.val]))

\* pub fn parse_color: terminated(alt((hsl_color, rgb_color)), eof), as
\* [kind |-> "ok", color |-> OldColor], [kind |-> "err"] or Panic
parse_color(s) ==
    Let(hsl_color(s, 1), LAMBDA h :
    IF h = Panic THEN Panic ELSE
    Let(IF h.ok THEN h ELSE rgb_color(s, 1), LAMBDA r :
    IF ~r.ok THEN [kind |-> "err"]
    ELSE IF r.pos # Len(s) + 1 THEN [kind |-> "err"]      \* eof
    ELSE [kind |-> "ok", color |-> r.val]))

\* The Color of a parsed OldColor, as the crate's overview has it: the value is
\* stored as RGB + alpha whichever notation it was written in
Color_of(c) ==
    IF c.kind = "Hsl" THEN from_hsl(c.hue, c.saturation, c.luminosity, c.alpha)
    ELSE {from_rgb(c.red, c.green, c.blue, c.alpha)}

\* impl FromStr for Color: the possible results, InvalidColor when parse_color fails
from_str(s) ==
    Let(parse_color(s), LAMBDA p :
    IF p = Panic THEN {Panic}
    ELSE IF p.kind = "err" THEN {[kind |-> "InvalidColor"]}
    ELSE Color_of(p.color))

----------------------------------------------------------------------------
(* The parser as a state machine: an input string is assembled from pieces
   (shape), then handed to parse_color and to Color::from_str *)

\* a written number: its characters and the value they denote, in tenths
Lit(txt, val) == [txt |-> txt, val |-> val]

\* a written value: a number and the suffix that follows it
Val(lit, unit) == [txt |-> lit.txt, val |-> lit.val, unit |-> unit]

L2 == Lit(<<"2">>, 2 * Unit)
LNeg5 == Lit(<<"-", "5">>, -5 * Unit)
L400 == Lit(<<"4", "0", "0">>, 400 * Unit)
L12 == Lit(<<"1", "2">>, 12 * Unit)
LNeg24p3 == Lit(<<"-", "2", "4", ".", "3">>, -243)
L101 == Lit(<<"1", "0", "1">>, 101 * Unit)
L24p2 == Lit(<<"2", "4", ".", "2">>, 242)
L4 == Lit(<<"4">>, 4 * Unit)
L0p3 == Lit(<<"0", ".", "3">>, 3)
L30 == Lit(<<"3", "0">>, 30 * Unit)
L1p5 == Lit(<<"1", ".", "5">>, 15)

NoUnit == <<>>
Pct == <<"%">>
Deg == <<"d", "e", "g">>
Rad == <<"r", "a", "d">>
Grad == <<"g", "r", "a", "d">>
Turn == <<"t", "u", "r", "n">>

Fns == {<<"h", "s", "l">>, <<"h", "s", "l", "a">>,
        <<"r", "g", "b">>, <<"r", "g", "b", "a">>}
HslFns == {<<"h", "s", "l">>, <<"h", "s", "l", "a">>}
RgbFns == Fns \ HslFns

Firsts == {Val(L2, u) : u \in {NoUnit, Pct, Deg, Rad, Grad, Turn}}
            \cup {Val(LNeg5, NoUnit), Val(L400, NoUnit)}
Seconds == {Val(L12, NoUnit), Val(LNeg24p3, NoUnit), Val(L12, Pct), Val(L101, Pct)}
Thirds == {Val(L24p2, NoUnit), Val(LNeg5, NoUnit), Val(L4, Pct), Val(L101, Pct)}
AlphaVals == {Val(L0p3, NoUnit), Val(L30, Pct), Val(L1p5, NoUnit)}

CommaSeps == {<<",">>, <<" ", ",", " ">>}
SpaceSeps == {<<" ">>}
Seps == CommaSeps \cup SpaceSeps
CommaIntros == {<<",", " ">>}
SlashIntros == {<<" ", "/", " ">>}
NoAlpha == [intro |-> <<>>, txt |-> <<>>, val |-> 0, unit |-> NoUnit]
Alphas == {NoAlpha} \cup
           {[intro |-> a, txt |-> v.txt, val |-> v.val, unit |-> v.unit] :
               a \in CommaIntros \cup SlashIntros, v \in AlphaVals}
Trails == {<<>>, <<"x", "y", "z">>}

Shapes == [fn : Fns, v1 : Firsts, s1 : Seps, v2 : Seconds, s2 : Seps, v3 : Thirds,
           alpha : Alphas, trail : Trails]

\* the input string of a shape
Render(sh) ==
    sh.fn \o <<"(">> \o sh.v1.txt \o sh.v1.unit \o sh.s1 \o sh.v2.txt \o sh.v2.unit
          \o sh.s2 \o sh.v3.txt \o sh.v3.unit
          \o sh.alpha.intro \o sh.alpha.txt \o sh.alpha.unit \o <<")">> \o sh.trail

InitParse ==
    /\ shape \in Shapes
    /\ input = Render(shape)
    /\ parsed = NoValue
    /\ color = NoValue
    /\ args = <<>>
    /\ view = NoValue
    /\ back = NoValue
    /\ old = NoValue
    /\ pc = "input"

\* parse_color(input)
ParseColor ==
    /\ pc = "input"
    /\ parsed' = parse_color(input)
    /\ pc' = "parsed"
    /\ UNCHANGED <<args, color, view, back, old, shape, input>>

\* input.parse::<Color>()
FromStr ==
    /\ pc = "input"
    /\ color' \in from_str(input)
    /\ pc' = "from_str"
    /\ UNCHANGED <<args, view, back, old, shape, input, parsed>>

NextParse == ParseColor \/ FromStr

SpecParse == InitParse /\ [][NextParse]_vars

----------------------------------------------------------------------------
(* The angle primitive on its own: a number, what is written straight after
   it, and the rest of the value list *)

L32 == Lit(<<"3", "2">>, 32 * Unit)
L360 == Lit(<<"3", "6", "0">>, 360 * Unit)

AngleLits == {L2, LNeg5, L400, L12, LNeg24p3, L24p2, L0p3, L1p5, L32, L360}

\* the four unit suffixes of fn angle
UnitSuffixes == {Deg, Rad, Grad, Turn}

\* suffixes that are none of the four: another word, a percent sign, a unit cut
\* short, a unit in capitals
OtherSuffixes == {<<"x", "y", "z">>, Pct, <<"d", "e">>, <<"g", "r", "a">>,
                  <<"D", "E", "G">>}

\* what the value list goes on with after the angle
AngleRests == {<<>>, <<",", " ", "1">>, <<" ", "1">>}

AngleShapes == [lit : AngleLits, suffix : {NoUnit} \cup UnitSuffixes \cup OtherSuffixes,
                rest : AngleRests]

InitAngle ==
    /\ shape \in AngleShapes
    /\ input = shape.lit.txt \o shape.suffix \o shape.rest
    /\ parsed = NoValue
    /\ color = NoValue
    /\ args = <<>>
    /\ view = NoValue
    /\ back = NoValue
    /\ old = NoValue
    /\ pc = "angle_input"

\* angle(input)
ParseAngle ==
    /\ pc = "angle_input"
    /\ parsed' = angle(input, 1)
    /\ pc' = "angle"
    /\ UNCHANGED <<args, color, view, back, old, shape, input>>

NextAngle == ParseAngle

SpecAngle == InitAngle /\ [][NextAngle]_vars

----------------------------------------------------------------------------
Init == InitConv \/ InitDark \/ InitParse \/ InitAngle

Next == NextConv \/ NextDark \/ NextParse \/ NextAngle

Spec == Init /\ [][Next]_vars

----------------------------------------------------------------------------
(* Properties of the parser (checked under SpecParse) *)

SepStyle(sep) == IF sep \in CommaSeps THEN "comma" ELSE "space"
IntroStyle(intro) == IF intro \in CommaIntros THEN "comma" ELSE "space"
HasAlpha(sh) == sh.alpha.intro # <<>>

\* one separator style throughout, the alpha introducer included
OneStyle(sh) ==
    /\ SepStyle(sh.s1) = SepStyle(sh.s2)
    /\ HasAlpha(sh) => IntroStyle(sh.alpha.intro) = SepStyle(sh.s1)

\* the shape with the second separator and the alpha introducer written in the
\* style of the first separator
Restyled(sh) ==
    [sh EXCEPT !.s2 = sh.s1,
               !.alpha.intro = IF ~HasAlpha(sh) THEN <<>>
                               ELSE IF sh.s1 \in CommaSeps THEN <<",", " ">>
                               ELSE <<" ", "/", " ">>]

ChanUnits(sh) == {sh.v1.unit, sh.v2.unit, sh.v3.unit}
UniformChannels(sh) == ChanUnits(sh) = {Pct} \/ ChanUnits(sh) = {NoUnit}
MixedChannels(sh) == Pct \in ChanUnits(sh) /\ NoUnit \in ChanUnits(sh)

\* the value nearest to x within [lo, hi]
Nearest_in(x, lo, hi) == IF x < lo THEN lo ELSE IF x > hi THEN hi ELSE x

\* the alpha a shape writes, on the 0-1 scale, in tenths
WrittenAlpha(sh) == IF sh.alpha.unit = Pct THEN sh.alpha.val \div 100 ELSE sh.alpha.val

\* an hsl()/hsla() expression in one style, with nothing after it and a hue the
\* crate converts to degrees
WellFormedHsl(sh) ==
    /\ sh.fn \in HslFns
    /\ OneStyle(sh)
    /\ sh.trail = <<>>
    /\ sh.v1.unit \in {NoUnit, Deg, Rad, Turn}

\* C1: the top-level parse succeeds only when the whole input is consumed: an
\* input with characters after the closing parenthesis yields no color, and when
\* what precedes those characters is a valid expression the result is an error.
C1_ExhaustiveConsumption ==
    /\ (pc = "parsed" /\ shape.trail # <<>>) =>
          /\ parsed.kind # "ok"
          /\ parse_color(Render([shape EXCEPT !.trail = <<>>])).kind = "ok"
                => parsed.kind = "err"
    /\ (pc = "from_str" /\ shape.trail # <<>>) => color.kind # "color"

C1_Witness ==
    /\ pc = "parsed"
    /\ shape.trail # <<>>
    /\ parse_color(Render([shape EXCEPT !.trail = <<>>])).kind = "ok"
    /\ parsed.kind = "err"

\* C2: a value list uses one separator style throughout, the alpha introducer
\* included: every hsl or rgb list that mixes comma style and space style
\* (between the fields, or between the fields and the alpha) is a parse failure.
C2_OneSeparatorStyle ==
    /\ (pc = "parsed" /\ ~OneStyle(shape)) => parsed.kind = "err"
    /\ (pc = "from_str" /\ ~OneStyle(shape)) => color.kind = "InvalidColor"

C2_Witness ==
    /\ pc = "parsed"
    /\ ~OneStyle(shape)
    /\ parsed.kind = "err"
    /\ parse_color(Render(Restyled(shape))).kind = "ok"

\* C3: the three channels of an rgb/rgba list are all percentages or all bare
\* floats: a list with at least one of each fails to parse, in either separator
\* style and with or without alpha.
C3_UniformChannels ==
    /\ (pc = "parsed" /\ shape.fn \in RgbFns /\ MixedChannels(shape)) => parsed.kind = "err"
    /\ (pc = "from_str" /\ shape.fn \in RgbFns /\ MixedChannels(shape))
          => color.kind = "InvalidColor"

C3_Witness ==
    /\ pc = "parsed"
    /\ shape.fn \in RgbFns
    /\ OneStyle(shape) /\ shape.trail = <<>> /\ ~HasAlpha(shape)
    /\ shape.v1.unit = Pct /\ shape.v2.unit = Pct /\ shape.v3.unit = NoUnit
    /\ parsed.kind = "err"

\* C4: in an rgb/rgba call with well-formed channels in one separator style, the
\* alpha is accepted as a percentage (divided by 100) or as a bare float,
\* whichever form the channels have.
C4_RgbAlphaEitherForm ==
    (/\ pc = "parsed"
     /\ shape.fn \in RgbFns
     /\ UniformChannels(shape) /\ OneStyle(shape) /\ shape.trail = <<>>
     /\ HasAlpha(shape))
    => /\ parsed.kind = "ok"
       /\ parsed.color.alpha = Nearest_in(WrittenAlpha(shape), 0, Unit)

\* C5: out-of-range literals of an hsl/hsla expression are accepted and clamped
\* to the nearest bound: the parse succeeds with hue in [0,360], saturation and
\* luminosity in [0,100], alpha in [0,1], each the nearest value of its range to
\* what was written (the hue after conversion to degrees; a hue above 360 becomes
\* 360, it does not wrap).
C5_Clamping ==
    (pc = "parsed" /\ WellFormedHsl(shape)) =>
        /\ parsed.kind = "ok"
        /\ parsed.color.kind = "Hsl"
        /\ parsed.color.hue \in 0..(360 * Unit)
        /\ shape.v1.unit \in {NoUnit, Deg} =>
              parsed.color.hue = Nearest_in(shape.v1.val, 0, 360 * Unit)
        /\ shape.v1.unit = Turn =>
              parsed.color.hue = Nearest_in(360 * shape.v1.val, 0, 360 * Unit)
        /\ parsed.color.saturation = Nearest_in(shape.v2.val, 0, 100 * Unit)
        /\ parsed.color.luminosity = Nearest_in(shape.v3.val, 0, 100 * Unit)
        /\ parsed.color.alpha \in 0..Unit
        /\ HasAlpha(shape) => parsed.color.alpha = Nearest_in(WrittenAlpha(shape), 0, Unit)

\* "hsl(2turn, -24.3, 101%)" yields hue 360, saturation 0, luminosity 100
C5_Witness ==
    /\ pc = "parsed"
    /\ shape.v1 = Val(L2, Turn) /\ shape.v2 = Val(LNeg24p3, NoUnit)
    /\ shape.v3 = Val(L101, Pct)
    /\ parsed.kind = "ok"
    /\ parsed.color.hue = 360 * Unit
    /\ parsed.color.saturation = 0
    /\ parsed.color.luminosity = 100 * Unit

\* C7: an hsl/hsla expression whose hue carries the grad unit never yields a
\* color: angle reads the suffix as Gradians, and when the list is otherwise in
\* one style the conversion to degrees panics.
C7_GradNeverYields ==
    /\ (pc = "parsed" /\ shape.fn \in HslFns /\ shape.v1.unit = Grad) =>
          /\ parsed.kind # "ok"
          /\ angle(input, Len(shape.fn) + 2).val.unit = "Gradians"
          /\ OneStyle(shape) => parsed = Panic
    /\ (pc = "from_str" /\ shape.fn \in HslFns /\ shape.v1.unit = Grad) =>
          color.kind # "color"

C7_Witness ==
    /\ pc = "parsed"
    /\ shape.fn \in HslFns /\ shape.v1.unit = Grad
    /\ shape.trail = <<>>
    /\ parsed = Panic

\* the other name of the same family of functions
OtherFn(fn) ==
    CASE fn = <<"h", "s", "l">> -> <<"h", "s", "l", "a">>
      [] fn = <<"h", "s", "l", "a">> -> <<"h", "s", "l">>
      [] fn = <<"r", "g", "b">> -> <<"r", "g", "b", "a">>
      [] fn = <<"r", "g", "b", "a">> -> <<"r", "g", "b">>

\* C9: in an hsl or hsla expression (interchangeable names, with or without
\* alpha) an alpha written p% yields p/100 and an alpha written as a float in
\* [0,1] yields that float, in the comma style and in the slash style; without
\* alpha the result has alpha 1.0.
C9_HslAlpha ==
    (pc = "parsed" /\ WellFormedHsl(shape)) =>
        /\ parsed.kind = "ok"
        /\ ~HasAlpha(shape) => parsed.color.alpha = Unit
        /\ (HasAlpha(shape) /\ WrittenAlpha(shape) \in 0..Unit) =>
              parsed.color.alpha = WrittenAlpha(shape)
        /\ parse_color(Render([shape EXCEPT !.fn = OtherFn(shape.fn)])) = parsed

\* "hsla(2 12 24.2 / 30%)" yields alpha 0.3
C9_Witness ==
    /\ pc = "parsed"
    /\ shape.fn = <<"h", "s", "l", "a">>
    /\ shape.alpha.intro \in SlashIntros
    /\ shape.alpha.txt = L30.txt /\ shape.alpha.unit = Pct
    /\ parsed.kind = "ok"
    /\ parsed.color.alpha = 3

----------------------------------------------------------------------------
(* Properties of the conversions (checked under SpecConv) *)

\* whole channel values in [0,255] and an alpha in [0,1]
IntegerRgb(a) ==
    /\ \A k \in 1..3 : a[k] \in {Unit * c : c \in 0..255}
    /\ a[4] \in 0..Unit

\* the largest difference, over the three channels, between a Color and the
\* arguments it should reproduce
ChannelDiff(c, a) ==
    LET d == {Abs(c.red - a[1]), Abs(c.green - a[2]), Abs(c.blue - a[3])}
    IN  CHOOSE m \in d : \A x \in d : x <= m

InRange(c) ==
    c.kind = "color" =>
        /\ \A x \in {c.red, c.green, c.blue} : ~IsNaN(x) /\ 0 <= x /\ x <= 255 * Unit
        /\ ~IsNaN(c.alpha) /\ 0 <= c.alpha /\ c.alpha <= Unit

\* C6: every Color, however it was built and whatever the arguments, holds
\* red, green and blue in [0,255] and alpha in [0,1].
C6_ColorInRange == InRange(color) /\ InRange(back)

\* the part of C6 that holds: when no argument is NaN
C6_FiniteArgs ==
    (pc # "args" /\ Len(args) = 4 /\ \A k \in 1..4 : ~IsNaN(args[k]))
        => InRange(color) /\ InRange(back)

\* the fixture of the tests: (23, 11, 33) <-> hsl(273, 50, 8.6)
IsFixture(a) == a[1] = 23 * Unit /\ a[2] = 11 * Unit /\ a[3] = 33 * Unit

RoundTripWithin(n) ==
    (pc = "rgb_hsl_rgb" /\ IntegerRgb(args)) =>
        /\ back.kind = "color"
        /\ ChannelDiff(back, args) <= n * Unit
        /\ back.alpha = args[4]
        /\ IsFixture(args) =>
              /\ <<view.hue, view.saturation, view.luminosity>> = <<273 * Unit, 50 * Unit, 86>>
              /\ ChannelDiff(back, args) = 0

\* C8 as stated: hsl_to_rgb(rgb_to_hsl(c)) is within 1 of c in every channel
\* for whole c in [0,255]^3, equal to c for (23,11,33), alpha unchanged.
C8_RoundTripWithin1 == RoundTripWithin(1)

\* C8 as amended: within 2 of c in every channel.
C8_RoundTripWithin2 == RoundTripWithin(2)

C8_Witness ==
    /\ pc = "rgb_hsl_rgb"
    /\ IntegerRgb(args)
    /\ back.kind = "color"
    /\ ChannelDiff(back, args) = 2 * Unit

HueInRange(a) == ~IsNaN(a[1]) /\ 0 <= a[1] /\ a[1] <= 360 * Unit

\* C10: for every hue in [0,360], 360 included, hsl_to_rgb takes one of the six
\* sextant cases and not the panic / unreachable one, and a hue in [300,360]
\* takes (chroma, 0, x); in colors.rs and in lib.rs.
C10_SextantTotal ==
    /\ (pc = "from_hsl" /\ HueInRange(args)) =>
          /\ color # Panic
          /\ sextant(args[1]) \in 1..6
          /\ args[1] >= 300 * Unit => sextant_rgb(sextant(args[1])) = <<"c", "0", "x">>
    /\ (pc = "lib" /\ HueInRange(args)) =>
          /\ old # Panic
          /\ lib_sextant(args[1]) \in 1..6
          /\ args[1] >= 300 * Unit => sextant_rgb(lib_sextant(args[1])) = <<"c", "0", "x">>

\* the part of C10 that holds: hsl_to_rgb of colors.rs
C10_ColorsRs ==
    (pc = "from_hsl" /\ HueInRange(args)) =>
        /\ color # Panic
        /\ sextant(args[1]) \in 1..6
        /\ args[1] >= 300 * Unit => sextant_rgb(sextant(args[1])) = <<"c", "0", "x">>

\* the hue, saturation and luminosity of an HSL result, without the alpha
Hsl3(h) == [kind |-> "hsl", hue |-> h.hue, saturation |-> h.saturation,
            luminosity |-> h.luminosity]

\* the hue branch rgb_to_hsl of colors.rs takes for the arguments a
BranchOf(a) ==
    LET cmin == f32_min(f32_min(a[1], a[2]), a[3])
        cmax == f32_max(f32_max(a[1], a[2]), a[3])
    IN  hue_branch(a[1], a[2], a[3], cmax, cmax - cmin)

\* the hue branch rgb_to_hsl of lib.rs takes for the arguments a
LibBranchOf(a) ==
    LET cmin == f32_min(f32_min(a[1], a[2]), a[3])
        cmax == f32_max(f32_max(a[1], a[2]), a[3])
    IN  lib_hue_branch(a[1], a[2], a[3], cmax, cmax - cmin)

FixtureHsl == [kind |-> "hsl", hue |-> 273 * Unit, saturation |-> 50 * Unit,
               luminosity |-> 86]

\* C12: for every integer RGB triple in [0,255]^3, rgb_to_hsl of colors.rs
\* (comparison within f32::EPSILON) takes the hue branch rgb_to_hsl of lib.rs
\* (exact comparison) takes, and the two return the same hue, saturation and
\* luminosity; for (23, 11, 33) both return (273, 50, 8.6).
C12_EpsilonIsExact ==
    /\ (pc = "rgb_hsl" /\ IntegerRgb(args)) =>
          /\ BranchOf(args) = LibBranchOf(args)
          /\ Hsl3(view) \in lib_rgb_to_hsl(args[1], args[2], args[3])
          /\ IsFixture(args) => Hsl3(view) = FixtureHsl
    /\ (pc = "lib_rgb" /\ IntegerRgb(args)) =>
          /\ BranchOf(args) = LibBranchOf(args)
          /\ old \in {Hsl3(h) : h \in rgb_to_hsl(args[1], args[2], args[3], args[4])}
          /\ IsFixture(args) => old = FixtureHsl

\* both conversions have run on a triple whose largest channel is not red, and
\* on the fixture
C12_Witness ==
    /\ pc = "lib_rgb" /\ IntegerRgb(args)
    /\ LibBranchOf(args) = 3
    /\ IsFixture(args)
    /\ old = FixtureHsl

\* what rgb_to_hsl is to return: a whole hue in [0,360), saturation and
\* luminosity in [0,100]
HueWhole(v) == v.hue \in {Unit * h : h \in 0..359}

PercentInRange(x) == ~IsNaN(x) /\ 0 <= x /\ x <= 100 * Unit

\* delta == 0.0 gives hue 0 and saturation 0
GreyIsZero(c, v) ==
    (c.red = c.green /\ c.green = c.blue) => v.hue = 0 /\ v.saturation = 0

\* C13: for every RGB input with channels in [0,255], rgb_to_hsl returns a
\* whole hue h with 0 <= h < 360, a saturation in [0,100] and a luminosity in
\* [0,100], and for red = green = blue it returns hue 0 and saturation 0.
\* Stated for the channels 255 * k / 2^26 of SpecDark.
C13_HslRange ==
    pc = "dark_hsl" =>
        /\ HueWhole(view)
        /\ PercentInRange(view.saturation)
        /\ PercentInRange(view.luminosity)
        /\ GreyIsZero(color, view)

\* the part of C13 that holds of the dark channels: hue, luminosity and the
\* grey case
C13_DarkHueLuminosity ==
    pc = "dark_hsl" =>
        /\ HueWhole(view)
        /\ PercentInRange(view.luminosity)
        /\ GreyIsZero(color, view)

\* a dark colour whose saturation is infinite: 1.0 - (2.0 * luminosity - 1.0).abs()
\* is 0.0 while delta is not
C13_DarkInfinite ==
    /\ pc = "dark_hsl"
    /\ color.red # color.blue
    /\ view.saturation = Inf

\* C13 on the channels of SpecConv (multiples of 0.1, the arguments being
\* clamped by from_rgb): the ranges and the grey case hold
C13_TenthChannels ==
    (pc = "rgb_hsl" /\ \A k \in 1..4 : ~IsNaN(args[k])) =>
        /\ HueWhole(view)
        /\ PercentInRange(view.saturation)
        /\ PercentInRange(view.luminosity)
        /\ GreyIsZero(color, view)

\* a grey of SpecConv converted: hue 0 and saturation 0
C13_GreyConverted ==
    /\ pc = "rgb_hsl"
    /\ color.red = color.green /\ color.green = color.blue
    /\ color.red = 255 * Unit
    /\ view.hue = 0 /\ view.saturation = 0 /\ view.luminosity = 100 * Unit

----------------------------------------------------------------------------
(* Properties of the angle primitive (checked under SpecAngle) *)

\* the Angle variant a unit suffix stands for
VariantOf(suffix) ==
    CASE suffix = Deg -> "Degrees"
      [] suffix = Rad -> "Radians"
      [] suffix = Grad -> "Gradians"
      [] suffix = Turn -> "Turns"

\* the end of the number and of the number with its suffix
AfterLit(sh) == Len(sh.lit.txt) + 1
AfterSuffix(sh) == Len(sh.lit.txt) + Len(sh.suffix) + 1

\* C11: angle reads a number and an optional unit suffix: with no suffix it
\* gives Degrees of the number, with deg, rad, grad or turn the matching
\* variant, and with a suffix that is none of the four it fails.
C11_AngleSuffix ==
    pc = "angle" =>
        /\ shape.suffix = NoUnit =>
              parsed = Ok(AfterLit(shape), [unit |-> "Degrees", val |-> shape.lit.val])
        /\ shape.suffix \in UnitSuffixes =>
              parsed = Ok(AfterSuffix(shape),
                          [unit |-> VariantOf(shape.suffix), val |-> shape.lit.val])
        /\ shape.suffix \in OtherSuffixes => ~parsed.ok

\* the part of C11 that holds: no suffix and the four units
C11_KnownSuffix ==
    pc = "angle" =>
        /\ shape.suffix = NoUnit =>
              parsed = Ok(AfterLit(shape), [unit |-> "Degrees", val |-> shape.lit.val])
        /\ shape.suffix \in UnitSuffixes =>
              parsed = Ok(AfterSuffix(shape),
                          [unit |-> VariantOf(shape.suffix), val |-> shape.lit.val])

\* what angle does with a suffix that is none of the four: Degrees of the
\* number, the suffix left unread
C11_OtherSuffixLeft ==
    (pc = "angle" /\ shape.suffix \in OtherSuffixes) =>
        parsed = Ok(AfterLit(shape), [unit |-> "Degrees", val |-> shape.lit.val])

====
